---- MODULE Spec2Model ----
(***************************************************************************)
(* A state-machine model of toolv3.py: the resumable crawl over             *)
(* SEARCH_TERMS_LIST with its checkpoint file (state.json), the two         *)
(* append-only stores (facebook_ads_<term>.csv and merged.csv), the         *)
(* shutdown flag set by the signal handler, and the webdriver lifecycle.    *)
(* The process can be killed at any step and started again; a new process   *)
(* starts from the module-level defaults and whatever is on disk.           *)
(***************************************************************************)
EXTENDS Integers, Sequences, FiniteSets, TLC

(* ------------------------------ bounds --------------------------------- *)

\* number of search terms of SEARCH_TERMS_LIST in the model
NTerms == 3
\* number of distinct ad ids the source holds
NIds == 3
\* how many times the process may be started again (after a kill or an exit)
MaxRestarts == 1
\* how many I/O errors (a failed save, append, capture or init_driver) may occur
MaxFaults == 1
\* number of entries of SCREENSHOTS_DIR the retention sweep meets
NFiles == 2

(* ------------------- program constants, at model scale ------------------ *)

BATCH_WRITE_EVERY_N_ROWS == 2
MAX_ADS_PER_DRIVER_RESTART == 2
\* limit=50 of fetch_ads_for_term: records per page
limit == 2
\* max_pages=5 of fetch_ads_for_term
max_pages == 2
\* retention_days of cleanup_old_images, in days
IMAGE_RETENTION_DAYS == 2

Terms == 1..NTerms
Ids == 1..NIds
SEARCH_TERMS_LIST == [k \in Terms |-> k]

Min(a, b) == IF a < b THEN a ELSE b
Max(a, b) == IF a > b THEN a ELSE b
ToSet(s) == {s[k] : k \in 1..Len(s)}

(* ------------------------- the remote source ---------------------------- *)

\* The ads the source holds for a term, in the order it pages them: term t
\* matches the ids t..NIds, so the same ad is returned for several terms.
SourceIds(t) == IF t > NIds THEN << >> ELSE [k \in 1..(NIds - t + 1) |-> t + k - 1]

\* Page requests a complete pagination of term t makes (paging.next is absent
\* on the last page; an empty result is still one request), capped by max_pages.
LastPage(t) == Min(Max((Len(SourceIds(t)) + limit - 1) \div limit, 1), max_pages)

\* How a fetch can go: okPages page requests succeed, then either the
\* pagination is over ("none") or the next page request fails after the
\* session's retries ("transient") or with a 4xx answer such as 401/403 ("auth").
FetchOutcomes(t) ==
    {[okPages |-> LastPage(t), fail |-> "none"]}
    \cup {[okPages |-> k, fail |-> f] : k \in 0..(LastPage(t) - 1), f \in {"transient", "auth"}}

\* fetch_ads_for_term without the try/except around the page request: a failed
\* page request raises out of the function.
fetch_ads_for_term_unguarded(tok, t, o) ==
    IF ~tok \/ o.fail # "none" THEN [raised |-> TRUE, results |-> << >>]
    ELSE [raised |-> FALSE,
          results |-> SubSeq(SourceIds(t), 1, Min(o.okPages * limit, Len(SourceIds(t))))]

\* fetch_ads_for_term: raises only when ACCESS_TOKEN is not set; a failed page
\* request is logged and ends the pagination with what was accumulated.
fetch_ads_for_term(tok, t, o) ==
    IF ~tok THEN [raised |-> TRUE, results |-> << >>]
    ELSE [raised |-> FALSE,
          results |-> SubSeq(SourceIds(t), 1, Min(o.okPages * limit, Len(SourceIds(t))))]

(* ------------------------- checkpoint (state.json) ---------------------- *)

EmptyState == [processed_terms |-> << >>, processed_ad_ids |-> << >>]

\* A JSON object that has neither key of the state (json.loads accepts any
\* document).
ForeignState == [meta |-> << >>]

\* state.get(key, [])
Get(st, key) == IF key \in DOMAIN st THEN st[key] ELSE << >>

\* state.setdefault(key, []).append(x)
SetDefaultAppend(st, key, x) ==
    IF key \in DOMAIN st THEN [st EXCEPT ![key] = Append(@, x)]
                          ELSE st @@ (key :> <<x>>)

\* state[key] does not raise KeyError
HasKey(st, key) == key \in DOMAIN st

\* STATE_FILE on disk: absent, a complete JSON document, or cut short.
NoFile == [kind |-> "absent", st |-> EmptyState]
Truncated == [kind |-> "truncated", st |-> EmptyState]
Saved(st) == [kind |-> "ok", st |-> st]

\* load_state: the file's content when it exists and parses; otherwise the
\* module-level state is left as it is.
load_state(d, cur) == IF d.kind = "ok" THEN d.st ELSE cur

\* save_state: STATE_FILE.write_text opens the file for writing (which empties
\* it) and then writes the document. "open_error": the open raises, the file is
\* untouched. "write_error": the write raises after the open emptied the file.
\* Either exception is caught and logged.
SaveOutcomes == {"ok", "open_error", "write_error"}
save_state(d, st, o) ==
    CASE o = "ok" -> Saved(st)
      [] o = "open_error" -> d
      [] OTHER -> Truncated

(* ------------------------------ capture --------------------------------- *)

Urls == {"none", "ext", "noext"}
DiskStates == {"ok", "low", "error"}
DownloadResults == {"image", "nonimage", "error"}
HeadResults == {"image", "nonimage", "error"}
ShotResults == {"ok", "error"}
CaptureInputs ==
    [url : Urls, disk : DiskStates, dl1 : DownloadResults, hd : HeadResults,
     dl2 : DownloadResults, ss : ShotResults]

\* _download_image: a path when the response is an image; None when the
\* content type is not an image or anything raises.
download_image(r) == r = "image"

\* _screenshot_page: the path when the renderer delivers, None when anything raises.
screenshot_page(r) == r = "ok"

\* capture_ad_snapshot returning None as soon as the first direct download
\* yields nothing.
capture_ad_snapshot_early_none(c) ==
    IF c.url = "none" THEN [src |-> "none", steps |-> << >>]
    ELSE IF c.disk = "error" THEN [src |-> "raise", steps |-> << >>]
    ELSE IF c.disk = "low" THEN [src |-> "none", steps |-> << >>]
    ELSE IF c.url = "ext"
    THEN [src |-> IF download_image(c.dl1) THEN "direct" ELSE "none",
          steps |-> <<"download">>]
    ELSE
      LET s2 == <<"head">>
      IN IF c.hd = "image" /\ download_image(c.dl2)
         THEN [src |-> "direct", steps |-> Append(s2, "download")]
         ELSE
           LET s3 == IF c.hd = "image" THEN Append(s2, "download") ELSE s2
               s4 == Append(s3, "screenshot")
           IN IF screenshot_page(c.ss)
              THEN [src |-> "rendered", steps |-> s4]
              ELSE [src |-> "none", steps |-> s4]

\* capture_ad_snapshot: src is where the returned path came from ("none": the
\* function returned None; "raise": an exception left the function), steps the
\* calls it made, in order.
capture_ad_snapshot(c) ==
    IF c.url = "none" THEN [src |-> "none", steps |-> << >>]
    ELSE IF c.disk = "error" THEN [src |-> "raise", steps |-> << >>]
    ELSE IF c.disk = "low" THEN [src |-> "none", steps |-> << >>]
    ELSE
      LET s1 == IF c.url = "ext" THEN <<"download">> ELSE << >>
      IN IF c.url = "ext" /\ download_image(c.dl1)
         THEN [src |-> "direct", steps |-> s1]
         ELSE
           LET s2 == Append(s1, "head")
           IN IF c.hd = "image" /\ download_image(c.dl2)
              THEN [src |-> "direct", steps |-> Append(s2, "download")]
              ELSE
                LET s3 == IF c.hd = "image" THEN Append(s2, "download") ELSE s2
                    s4 == Append(s3, "screenshot")
                IN IF screenshot_page(c.ss)
                   THEN [src |-> "rendered", steps |-> s4]
                   ELSE [src |-> "none", steps |-> s4]

(* ------------------------------ the state ------------------------------- *)

VARIABLES
    token,          \* ACCESS_TOKEN is set
    pc,             \* where the process is
    state,          \* the module-level state dict
    disk,           \* STATE_FILE
    merged,         \* rows of MERGED_CSV
    out,            \* rows of each term's out_csv
    shutting_down,
    driver,         \* main's driver: "none", "live" or "quit"
    processed_ads_since_restart,
    ti,             \* index of main's current term in SEARCH_TERMS_LIST
    ads,            \* process_single_term's ads
    j,              \* index in ads of the record of the current iteration
    rows,           \* process_single_term's rows
    final,          \* the flush in progress is the final flush
    exitCode,       \* -1 while the process runs
    uncaught,       \* an exception is leaving main
    timeUp,         \* the test of line 397 found MAX_RUNTIME_SECONDS exceeded
    lastSave,       \* how the last call of save_state went ("none": no call yet)
    restarts,       \* processes started after the first
    faults,         \* I/O errors so far
    queried,        \* terms fetch_ads_for_term was called with, this process
    loaded,         \* processed_terms of the checkpoint on disk when the process started
    authAt,         \* Len(queried) when a page request was refused (0: never)
    failed,         \* terms whose every page request failed, this process
    sigPos,         \* records begun when a signal came inside the record loop (-1: none)
    emitted,        \* indexes in ads of the records given a row in this pass
    m0,             \* Len(merged) when this pass began
    o0,             \* Len(out[term]) when this pass began
    accepts,        \* indexes in ads of the records the language filter accepts
    fromEmpty,      \* this pass began with the empty state
    exc,            \* the call that raised out of this pass ("none": no exception)
    capIn,          \* capture_ad_snapshot's inputs (capture specification)
    capOut,         \* and its result
    shots,          \* the entries of SCREENSHOTS_DIR, in glob order (sweep specification)
    present,        \* indexes of the entries that have not been removed
    pos             \* index of the entry the sweep examines next

procVars == <<pc, state, shutting_down, driver, processed_ads_since_restart, ti,
              ads, j, rows, final, exitCode, uncaught>>
diskVars == <<disk, merged, out>>
runGhost == <<queried, loaded, authAt, failed>>
passGhost == <<sigPos, emitted, m0, o0, accepts, fromEmpty, exc>>
sweepVars == <<shots, present, pos>>
capVars == <<capIn, capOut, sweepVars>>
vars == <<token, timeUp, lastSave, procVars, diskVars, restarts, faults, runGhost,
          passGhost, capVars>>

Term == SEARCH_TERMS_LIST[ti]
Row(t, id) == [term |-> t, ad_id |-> id]
NoCapture == [src |-> "idle", steps |-> << >>]
IdleInput == [url |-> "none", disk |-> "ok", dl1 |-> "error", hd |-> "error",
              dl2 |-> "error", ss |-> "error"]

\* A fresh process: the module-level defaults; d is STATE_FILE as it finds it.
FreshProcess(d) ==
    /\ pc' = "start"
    /\ state' = EmptyState
    /\ shutting_down' = FALSE
    /\ driver' = "none"
    /\ processed_ads_since_restart' = 0
    /\ ti' = 1
    /\ ads' = << >>
    /\ j' = 1
    /\ rows' = << >>
    /\ final' = FALSE
    /\ exitCode' = -1
    /\ uncaught' = FALSE
    /\ timeUp' = FALSE
    /\ lastSave' = "none"
    /\ queried' = << >>
    /\ loaded' = IF d.kind = "ok" THEN ToSet(Get(d.st, "processed_terms")) ELSE {}
    /\ authAt' = 0
    /\ failed' = {}
    /\ sigPos' = -1
    /\ emitted' = << >>
    /\ m0' = 0
    /\ o0' = 0
    /\ accepts' = {}
    /\ fromEmpty' = FALSE
    /\ exc' = "none"

Init ==
    /\ token \in BOOLEAN
    /\ pc = "start"
    /\ state = EmptyState
    /\ disk = NoFile
    /\ merged = << >>
    /\ out = [t \in Terms |-> << >>]
    /\ shutting_down = FALSE
    /\ driver = "none"
    /\ processed_ads_since_restart = 0
    /\ ti = 1
    /\ ads = << >>
    /\ j = 1
    /\ rows = << >>
    /\ final = FALSE
    /\ exitCode = -1
    /\ uncaught = FALSE
    /\ timeUp = FALSE
    /\ lastSave = "none"
    /\ restarts = 0
    /\ faults = 0
    /\ queried = << >>
    /\ loaded = {}
    /\ authAt = 0
    /\ failed = {}
    /\ sigPos = -1
    /\ emitted = << >>
    /\ m0 = 0
    /\ o0 = 0
    /\ accepts = {}
    /\ fromEmpty = FALSE
    /\ exc = "none"
    /\ capIn = IdleInput
    /\ capOut = NoCapture
    /\ shots = << >>
    /\ present = {}
    /\ pos = 1

(* --------------------------- helper steps ------------------------------- *)

\* append_to_csv: the file with the first k rows of df appended; k = Len(df)
\* when to_csv returns, less when it raises (or the process dies) part-way.
append_to_csv(file, df, k) == file \o SubSeq(df, 1, k)

\* A call of save_state with outcome o.
Save(o) ==
    /\ o # "ok" => faults < MaxFaults
    /\ disk' = save_state(disk, state, o)
    /\ lastSave' = o
    /\ faults' = IF o = "ok" THEN faults ELSE faults + 1

\* An I/O error is raised.
Fault == faults < MaxFaults /\ faults' = faults + 1

\* What capture_ad_snapshot can do for some url, disk and answers of the
\* network; a renderer that was quit cannot deliver a screenshot.
CaptureSrcs(live) ==
    {capture_ad_snapshot(c).src : c \in {x \in CaptureInputs : x.ss = "ok" => live}}

\* process_single_term, lines 294 and 360: the term is recorded as processed
\* (state["processed_terms"] raises KeyError when the key is missing).
MarkProcessed(st, t) == [st EXCEPT !.processed_terms = Append(@, t)]

\* main without the try/except inside the loop: the exception leaves the for
\* loop and main goes to the finally block.
Except_leaves_loop(call) ==
    /\ pc' = "finally"
    /\ ti' = ti
    /\ rows' = << >>
    /\ final' = FALSE
    /\ exc' = call

\* main's "except Exception" around process_single_term: log, pause, continue
\* with the next term. The frame of process_single_term, rows included, is gone.
Except(call) ==
    /\ pc' = "loop"
    /\ ti' = ti + 1
    /\ rows' = << >>
    /\ final' = FALSE
    /\ exc' = call

\* main, line 394: the term is among the processed terms.
AlreadyProcessed_never(st, t) == FALSE
AlreadyProcessed(st, t) == t \in ToSet(Get(st, "processed_terms"))

\* The for loop of process_single_term is over: no record is left, or the
\* break on shutting_down (lines 299-301).
LoopOver == j > Len(ads) \/ shutting_down

\* Line 360 (and 294): the term is appended to state["processed_terms"] and
\* save_state follows, or the KeyError leaves process_single_term.
Mark ==
    IF HasKey(state, "processed_terms")
    THEN /\ pc' = "marksave"
         /\ state' = MarkProcessed(state, Term)
         /\ final' = TRUE
         /\ UNCHANGED <<ti, rows, exc>>
    ELSE /\ Except("state")
         /\ state' = state

\* Leaving the record loop without the final flush.
LeaveLoop_no_final_flush == Mark

\* The record loop is left (exhausted, or the break on shutting_down): the
\* final flush when rows is not empty, else straight to line 360.
LeaveLoop ==
    IF rows # << >>
    THEN /\ pc' = "flush1"
         /\ state' = state
         /\ final' = TRUE
         /\ UNCHANGED <<ti, rows, exc>>
    ELSE Mark

(* ------------------------------ main ------------------------------------ *)

\* main, lines 365-370: load_state, cleanup_old_images, the token check.
Start ==
    /\ pc = "start"
    /\ state' = load_state(disk, state)
    /\ IF token
       THEN pc' = "init" /\ exitCode' = exitCode
       ELSE pc' = "exited" /\ exitCode' = 0
    /\ UNCHANGED <<token, timeUp, lastSave,
                   shutting_down, driver, processed_ads_since_restart, ti, ads,
                   j, rows, final, uncaught, diskVars, restarts, faults, runGhost,
                   passGhost, capVars>>

\* main, line 375: init_driver returns a driver, or raises out of main
\* through the finally block.
InitDriver ==
    /\ pc = "init"
    /\ \/ driver' = "live" /\ pc' = "loop" /\ UNCHANGED <<uncaught, faults>>
       \/ Fault /\ driver' = driver /\ pc' = "finally" /\ uncaught' = TRUE
    /\ UNCHANGED <<token, timeUp, lastSave,
                   state, shutting_down, processed_ads_since_restart, ti, ads,
                   j, rows, final, exitCode, diskVars, restarts, runGhost, passGhost,
                   capVars>>

\* The test of line 397 without the break.
AfterBudgetTest_no_break(late) == "fetch"

\* main, lines 397-399: the break when the run has lasted longer than
\* MAX_RUNTIME_SECONDS (late), else the term is processed.
AfterBudgetTest(late) == IF late THEN "finally" ELSE "fetch"

\* main, lines 391-399: the head of the loop over SEARCH_TERMS_LIST.
LoopHead ==
    /\ pc = "loop"
    /\ IF ti > NTerms \/ shutting_down
       THEN pc' = "finally" /\ ti' = ti /\ timeUp' = timeUp
       ELSE IF AlreadyProcessed(state, Term)
       THEN pc' = "loop" /\ ti' = ti + 1 /\ timeUp' = timeUp
       ELSE \E late \in BOOLEAN :
              pc' = AfterBudgetTest(late) /\ ti' = ti /\ timeUp' = late
    /\ UNCHANGED <<token, lastSave, state, shutting_down, driver, processed_ads_since_restart,
                   ads, j, rows, final, exitCode, uncaught, diskVars, restarts, faults,
                   runGhost, passGhost, capVars>>

(* ------------------------ process_single_term --------------------------- *)

\* Lines 291-298: the fetch, and the early return on an empty result.
Fetch ==
    /\ pc = "fetch"
    /\ \E o \in FetchOutcomes(Term) :
         LET r == fetch_ads_for_term(token, Term, o) IN
         /\ queried' = Append(queried, Term)
         /\ authAt' = IF o.fail = "auth" /\ authAt = 0 THEN Len(queried) + 1 ELSE authAt
         /\ failed' = IF o.okPages = 0 /\ o.fail # "none" THEN failed \cup {Term} ELSE failed
         /\ IF r.raised
            THEN /\ Except("fetch")
                 /\ accepts' = {}
                 /\ UNCHANGED <<state, ads, j>>
            ELSE /\ accepts' \in SUBSET (1..Len(r.results))
                 /\ ads' = r.results
                 /\ j' = 1
                 /\ IF r.results # << >>
                    THEN /\ pc' = "rec"
                         /\ state' = state
                         /\ exc' = "none"
                         /\ rows' = << >>
                         /\ final' = FALSE
                         /\ ti' = ti
                    ELSE IF HasKey(state, "processed_terms")
                    THEN /\ pc' = "marksave"
                         /\ state' = MarkProcessed(state, Term)
                         /\ exc' = "none"
                         /\ rows' = << >>
                         /\ final' = FALSE
                         /\ ti' = ti
                    ELSE /\ Except("state")
                         /\ state' = state
    /\ sigPos' = -1
    /\ emitted' = << >>
    /\ m0' = Len(merged)
    /\ o0' = Len(out[Term])
    /\ fromEmpty' = (state = EmptyState)
    /\ UNCHANGED <<token, timeUp, lastSave,
                   shutting_down, driver, processed_ads_since_restart, exitCode,
                   uncaught, diskVars, restarts, faults, loaded, capVars>>

\* Lines 299-318: the top of one iteration: the shutdown check, the seen-id
\* check and the language filter (an outside classifier; what it answers for
\* each record of the pass is accepts).
RecCheck ==
    /\ pc = "rec"
    /\ IF LoopOver
       THEN LeaveLoop /\ j' = j
       ELSE /\ UNCHANGED <<state, final, ti, rows, exc>>
            /\ IF ads[j] \in ToSet(Get(state, "processed_ad_ids")) \/ j \notin accepts
               THEN pc' = "rec" /\ j' = j + 1
               ELSE pc' = "cap" /\ j' = j
    /\ UNCHANGED <<token, timeUp, lastSave,
                   shutting_down, driver, processed_ads_since_restart, ads,
                   exitCode, uncaught, diskVars, restarts, faults, runGhost,
                   sigPos, emitted, m0, o0, accepts, fromEmpty, capVars>>

\* Lines 320-345: the capture, the row, the id recorded as seen, and the
\* threshold test.
Capture ==
    /\ pc = "cap"
    /\ \E src \in CaptureSrcs(driver = "live") :
         IF src = "raise"
         THEN /\ Fault
              /\ Except("capture")
              /\ UNCHANGED <<state, j, emitted>>
         ELSE /\ rows' = Append(rows, Row(Term, ads[j]))
              /\ state' = SetDefaultAppend(state, "processed_ad_ids", ads[j])
              /\ emitted' = Append(emitted, j)
              /\ IF Len(rows) + 1 >= BATCH_WRITE_EVERY_N_ROWS
                 THEN pc' = "flush1" /\ j' = j
                 ELSE pc' = "rec" /\ j' = j + 1
              /\ UNCHANGED <<final, ti, exc, faults>>
    /\ UNCHANGED <<token, timeUp, lastSave,
                   shutting_down, driver, processed_ads_since_restart, ads,
                   exitCode, uncaught, diskVars, restarts, runGhost, sigPos, m0, o0,
                   accepts, fromEmpty, capVars>>

\* Lines 347 and 356: append_to_csv(df, out_csv); an OSError leaves the
\* function with some of the rows written.
AppendOut ==
    /\ pc = "flush1"
    /\ \/ /\ out' = [out EXCEPT ![Term] = append_to_csv(@, rows, Len(rows))]
          /\ pc' = "flush2"
          /\ UNCHANGED <<ti, rows, final, exc, faults>>
       \/ /\ \E k \in 0..(Len(rows) - 1) :
               out' = [out EXCEPT ![Term] = append_to_csv(@, rows, k)]
          /\ Fault
          /\ Except("append")
    /\ UNCHANGED <<token, timeUp, lastSave,
                   state, shutting_down, driver, processed_ads_since_restart,
                   ads, j, exitCode, uncaught, disk, merged, restarts, runGhost, sigPos,
                   emitted, m0, o0, accepts, fromEmpty, capVars>>

\* Lines 348-349 and 357: append_to_csv(df, MERGED_CSV), then rows.clear()
\* in the batch flush (the final flush does not clear).
AppendMerged ==
    /\ pc = "flush2"
    /\ \/ /\ merged' = append_to_csv(merged, rows, Len(rows))
          /\ pc' = "flushsave"
          /\ rows' = IF final THEN rows ELSE << >>
          /\ UNCHANGED <<ti, final, exc, faults>>
       \/ /\ \E k \in 0..(Len(rows) - 1) :
               merged' = append_to_csv(merged, rows, k)
          /\ Fault
          /\ Except("append")
    /\ UNCHANGED <<token, timeUp, lastSave,
                   state, shutting_down, driver, processed_ads_since_restart,
                   ads, j, exitCode, uncaught, disk, out, restarts, runGhost, sigPos,
                   emitted, m0, o0, accepts, fromEmpty, capVars>>

\* Lines 350 and 358: save_state after a flush; after the final flush,
\* line 360 follows.
FlushSave ==
    /\ pc = "flushsave"
    /\ \E o \in SaveOutcomes : Save(o)
    /\ IF final
       THEN Mark /\ j' = j
       ELSE /\ pc' = "rec"
            /\ j' = j + 1
            /\ UNCHANGED <<state, final, ti, rows, exc>>
    /\ UNCHANGED <<token, timeUp, shutting_down, driver, processed_ads_since_restart, ads,
                   exitCode, uncaught, merged, out, restarts, runGhost, sigPos, emitted,
                   m0, o0, accepts, fromEmpty, capVars>>

\* Lines 295 and 361: save_state after the term was recorded as processed.
MarkSave ==
    /\ pc = "marksave"
    /\ \E o \in SaveOutcomes : Save(o)
    /\ pc' = "post"
    /\ UNCHANGED <<token, timeUp,
                   state, shutting_down, driver, processed_ads_since_restart, ti,
                   ads, j, rows, final, exitCode, uncaught, merged, out, restarts,
                   runGhost, passGhost, capVars>>

(* --------------------------- main, continued ---------------------------- *)

\* Lines 402-412: the counter, and the periodic restart of the webdriver:
\* safe_quit_driver, then init_driver, which returns a driver or raises into
\* the "except Exception" of the loop with driver still naming the old one.
Post ==
    /\ pc = "post"
    /\ IF processed_ads_since_restart + 1 >= MAX_ADS_PER_DRIVER_RESTART
       THEN \/ /\ driver' = "live"
               /\ processed_ads_since_restart' = 0
               /\ faults' = faults
            \/ /\ Fault
               /\ driver' = "quit"
               /\ processed_ads_since_restart' = processed_ads_since_restart + 1
       ELSE /\ driver' = driver
            /\ processed_ads_since_restart' = processed_ads_since_restart + 1
            /\ faults' = faults
    /\ pc' = "loop"
    /\ ti' = ti + 1
    /\ rows' = << >>
    /\ final' = FALSE
    /\ UNCHANGED <<token, timeUp, lastSave,
                   state, shutting_down, ads, j, exitCode, uncaught, diskVars,
                   restarts, runGhost, passGhost, capVars>>

\* Lines 419-423 and 425-426: the finally block, and the end of the process:
\* a return from main ends it with code 0, an exception leaving main with 1.
Finally ==
    /\ pc = "finally"
    /\ driver' = IF driver = "none" THEN "none" ELSE "quit"
    /\ \E o \in SaveOutcomes : Save(o)
    /\ pc' = "exited"
    /\ exitCode' = IF uncaught THEN 1 ELSE 0
    /\ UNCHANGED <<token, timeUp,
                   state, shutting_down, processed_ads_since_restart, ti, ads, j,
                   rows, final, uncaught, merged, out, restarts, runGhost, passGhost,
                   capVars>>

\* _signal_handler: runs between two steps of the main flow.
Signal ==
    /\ pc # "exited"
    /\ ~shutting_down
    /\ shutting_down' = TRUE
    /\ \E o \in SaveOutcomes : Save(o)
    /\ sigPos' = IF pc \in {"rec", "cap", "flush1", "flush2", "flushsave"} /\ ~final
                 THEN (IF pc = "rec" THEN j - 1 ELSE j)
                 ELSE sigPos
    /\ UNCHANGED <<token, timeUp, pc, state, driver, processed_ads_since_restart, ti, ads, j,
                   rows, final, exitCode, uncaught, merged, out, restarts, runGhost,
                   emitted, m0, o0, accepts, fromEmpty, exc, capVars>>

(* ------------------- the process dies and is started again -------------- *)

\* The process is killed between two steps.
Kill ==
    /\ pc # "exited"
    /\ restarts < MaxRestarts
    /\ restarts' = restarts + 1
    /\ FreshProcess(disk)
    /\ UNCHANGED <<token, diskVars, faults, capVars>>

\* The process is killed inside write_text: the file was opened (emptied) and
\* the document is not, or not completely, written.
KillInSave ==
    /\ pc \in {"flushsave", "marksave", "finally"}
    /\ restarts < MaxRestarts
    /\ restarts' = restarts + 1
    /\ disk' = Truncated
    /\ FreshProcess(Truncated)
    /\ UNCHANGED <<token, merged, out, faults, capVars>>

\* The process is killed inside to_csv: some of the rows are written.
KillInAppend ==
    /\ pc \in {"flush1", "flush2"}
    /\ restarts < MaxRestarts
    /\ restarts' = restarts + 1
    /\ \E k \in 1..(Len(rows) - 1) :
         IF pc = "flush1"
         THEN out' = [out EXCEPT ![Term] = append_to_csv(@, rows, k)] /\ merged' = merged
         ELSE merged' = append_to_csv(merged, rows, k) /\ out' = out
    /\ FreshProcess(disk)
    /\ UNCHANGED <<token, disk, faults, capVars>>

\* The process has ended and the tool is run again.
Rerun ==
    /\ pc = "exited"
    /\ restarts < MaxRestarts
    /\ restarts' = restarts + 1
    /\ FreshProcess(disk)
    /\ UNCHANGED <<token, diskVars, faults, capVars>>

Next ==
    \/ Start
    \/ InitDriver
    \/ LoopHead
    \/ Fetch
    \/ RecCheck
    \/ Capture
    \/ AppendOut
    \/ AppendMerged
    \/ FlushSave
    \/ MarkSave
    \/ Post
    \/ Finally
    \/ Signal
    \/ Kill
    \/ KillInSave
    \/ KillInAppend
    \/ Rerun

Spec == Init /\ [][Next]_vars

\* The steps of the program itself (the signal, the kills and the restart are
\* the environment's). Every call of a collaborator has a timeout (requests:
\* 15 to 30 s, the page load of the webdriver) and every sleep is finite, so a
\* step that is enabled is eventually taken.
Run ==
    \/ Start
    \/ InitDriver
    \/ LoopHead
    \/ Fetch
    \/ RecCheck
    \/ Capture
    \/ AppendOut
    \/ AppendMerged
    \/ FlushSave
    \/ MarkSave
    \/ Post
    \/ Finally

SpecLive == Init /\ [][Next]_vars /\ WF_vars(Run)

(* ------------------ capture_ad_snapshot on its own ---------------------- *)

InitCapture ==
    /\ token = TRUE
    /\ pc = "start"
    /\ state = EmptyState
    /\ disk = NoFile
    /\ merged = << >>
    /\ out = [t \in Terms |-> << >>]
    /\ shutting_down = FALSE
    /\ driver = "live"
    /\ processed_ads_since_restart = 0
    /\ ti = 1
    /\ ads = << >>
    /\ j = 1
    /\ rows = << >>
    /\ final = FALSE
    /\ exitCode = -1
    /\ uncaught = FALSE
    /\ timeUp = FALSE
    /\ lastSave = "none"
    /\ restarts = 0
    /\ faults = 0
    /\ queried = << >>
    /\ loaded = {}
    /\ authAt = 0
    /\ failed = {}
    /\ sigPos = -1
    /\ emitted = << >>
    /\ m0 = 0
    /\ o0 = 0
    /\ accepts = {}
    /\ fromEmpty = FALSE
    /\ exc = "none"
    /\ capIn \in CaptureInputs
    /\ capOut = NoCapture
    /\ shots = << >>
    /\ present = {}
    /\ pos = 1

CaptureCall ==
    /\ capOut = NoCapture
    /\ capOut' = capture_ad_snapshot(capIn)
    /\ UNCHANGED <<token, timeUp, lastSave,
                   procVars, diskVars, restarts, faults, runGhost, passGhost,
                   capIn, sweepVars>>

SpecCapture == InitCapture /\ [][CaptureCall]_vars

(* ------------------- cleanup_old_images on its own ---------------------- *)

\* time.time() when the sweep starts, and the modification times an entry can
\* have, in days: older than, exactly as old as, and younger than
\* retention_days.
Now == IMAGE_RETENTION_DAYS + 2
MTimes == 1..(Now - 1)
Age(e) == Now - e.mtime

\* An entry of the directory: its modification time, whether it is a regular
\* file, and the call that raises for it (stat: is_file or stat; unlink).
Entries == [mtime : MTimes, isFile : BOOLEAN, err : {"none", "stat", "unlink"}]

\* Line 139: cutoff = time.time() - retention_days*24*3600.
cutoff == Now - IMAGE_RETENTION_DAYS

\* Line 143, the test on the modification time, removing every file.
Expired_always(e) == TRUE

\* Line 143: p.stat().st_mtime < cutoff.
Expired(e) == e.mtime < cutoff

InitSweep ==
    /\ token = TRUE
    /\ pc = "start"
    /\ state = EmptyState
    /\ disk = NoFile
    /\ merged = << >>
    /\ out = [t \in Terms |-> << >>]
    /\ shutting_down = FALSE
    /\ driver = "none"
    /\ processed_ads_since_restart = 0
    /\ ti = 1
    /\ ads = << >>
    /\ j = 1
    /\ rows = << >>
    /\ final = FALSE
    /\ exitCode = -1
    /\ uncaught = FALSE
    /\ timeUp = FALSE
    /\ lastSave = "none"
    /\ restarts = 0
    /\ faults = 0
    /\ queried = << >>
    /\ loaded = {}
    /\ authAt = 0
    /\ failed = {}
    /\ sigPos = -1
    /\ emitted = << >>
    /\ m0 = 0
    /\ o0 = 0
    /\ accepts = {}
    /\ fromEmpty = FALSE
    /\ exc = "none"
    /\ capIn = IdleInput
    /\ capOut = NoCapture
    /\ shots \in [1..NFiles -> Entries]
    /\ present = 1..NFiles
    /\ pos = 1

\* Lines 141-147: one iteration of the loop over SCREENSHOTS_DIR.glob("*"):
\* an exception of is_file, stat or unlink is caught inside the loop and the
\* loop continues with the next entry.
SweepEntry ==
    /\ pos <= Len(shots)
    /\ pos' = pos + 1
    /\ LET e == shots[pos] IN
         present' = IF e.err # "stat" /\ e.isFile /\ Expired(e) /\ e.err # "unlink"
                    THEN present \ {pos}
                    ELSE present
    /\ UNCHANGED <<token, timeUp, lastSave,
                   procVars, diskVars, restarts, faults, runGhost, passGhost,
                   capIn, capOut, shots>>

SpecSweep == InitSweep /\ [][SweepEntry]_vars

(* ------------- the first start finds a checkpoint it did not write ------ *)

\* STATE_FILE holds something that is not a complete checkpoint: a document
\* that does not parse, or a JSON object without the keys of the state.
CorruptFiles == {Truncated, Saved(ForeignState)}

InitCorrupt ==
    /\ token = TRUE
    /\ pc = "start"
    /\ state = EmptyState
    /\ disk \in CorruptFiles
    /\ merged = << >>
    /\ out = [t \in Terms |-> << >>]
    /\ shutting_down = FALSE
    /\ driver = "none"
    /\ processed_ads_since_restart = 0
    /\ ti = 1
    /\ ads = << >>
    /\ j = 1
    /\ rows = << >>
    /\ final = FALSE
    /\ exitCode = -1
    /\ uncaught = FALSE
    /\ timeUp = FALSE
    /\ lastSave = "none"
    /\ restarts = 0
    /\ faults = 0
    /\ queried = << >>
    /\ loaded = {}
    /\ authAt = 0
    /\ failed = {}
    /\ sigPos = -1
    /\ emitted = << >>
    /\ m0 = 0
    /\ o0 = 0
    /\ accepts = {}
    /\ fromEmpty = FALSE
    /\ exc = "none"
    /\ capIn = IdleInput
    /\ capOut = NoCapture
    /\ shots = << >>
    /\ present = {}
    /\ pos = 1

SpecCorrupt == InitCorrupt /\ [][Next]_vars


(* ------------------------------ the claims ------------------------------ *)

\* The current (or last) pass of process_single_term: its term, the rows the
\* two stores gained since it began, and the rows of the records it emitted.
PassTerm == queried[Len(queried)]
NewMerged == SubSeq(merged, m0 + 1, Len(merged))
NewOut == SubSeq(out[PassTerm], o0 + 1, Len(out[PassTerm]))
EmittedRows == [k \in 1..Len(emitted) |-> Row(PassTerm, ads[emitted[k]])]
NoDupIds(s) == \A a, b \in 1..Len(s) : a # b => s[a].ad_id # s[b].ad_id
Ascending(s) == \A a, b \in 1..Len(s) : a < b => s[a] < s[b]

\* C1: across crashes and restarts, no record id has more than one row in the
\* aggregate store, nor more than one row in the store of a term.
C1_AtMostOnce ==
    /\ NoDupIds(merged)
    /\ \A t \in Terms : NoDupIds(out[t])

\* C2: a term that is among the processed terms of the checkpoint the process
\* started from is never passed to fetch_ads_for_term by that process.
C2_NoRequery == \A k \in 1..Len(queried) : queried[k] \notin loaded

\* A process that started from a checkpoint naming a later term as processed
\* has fetched an earlier term.
C2_Witness == \E w \in loaded : \E k \in 1..Len(queried) : queried[k] < w

\* C3: a shutdown signal came while the records of a term were processed (and
\* no write to a store failed): when the process has ended, the two stores have
\* gained exactly the rows of the records the pass emitted, and none of these
\* records comes after the one in progress when the signal came.
C3_ShutdownMidItem ==
    (pc = "exited" /\ sigPos >= 0 /\ exc # "append") =>
        /\ NewMerged = EmittedRows
        /\ NewOut = EmittedRows
        /\ \A k \in 1..Len(emitted) : emitted[k] <= sigPos

\* C3, for a pass that no exception ended: the break on shutting_down is
\* followed by the final flush.
C3_NoException ==
    (pc = "exited" /\ sigPos >= 0 /\ exc = "none") =>
        /\ NewMerged = EmittedRows
        /\ NewOut = EmittedRows
        /\ \A k \in 1..Len(emitted) : emitted[k] <= sigPos

\* The signal came with a row buffered and records left, and the process ended
\* with the rows in the stores.
C3_NoException_Witness ==
    /\ pc = "exited" /\ exc = "none"
    /\ sigPos >= 1 /\ sigPos < Len(ads)
    /\ emitted # << >>
    /\ NewMerged = EmittedRows

\* C4: once the term of a pass is among the processed terms, every row the
\* pass emitted, the rows of the last partial batch included, is in both
\* stores.
C4_FinalFlush ==
    (pc \in {"marksave", "post"} /\ PassTerm \in ToSet(state.processed_terms)) =>
        /\ NewMerged = EmittedRows
        /\ NewOut = EmittedRows

\* A pass ended with a partial batch (fewer than BATCH_WRITE_EVERY_N_ROWS
\* rows) after a full batch had been flushed.
C4_Witness ==
    /\ pc = "post"
    /\ Len(rows) > 0 /\ Len(rows) < BATCH_WRITE_EVERY_N_ROWS
    /\ Len(emitted) > Len(rows)

\* C5: a term processed from the empty state, its fetch returning records of
\* distinct ids, the filter accepting the records of accepts: when the pass
\* has completed, the stores have gained exactly one row for each accepted
\* record, in ascending order of the fetch, the seen ids are the accepted ids,
\* and the term is among the processed terms.
C5_Scenario ==
    (pc \in {"marksave", "post"} /\ fromEmpty) =>
        /\ ToSet(emitted) = accepts
        /\ Ascending(emitted)
        /\ NewMerged = EmittedRows
        /\ NewOut = EmittedRows
        /\ state.processed_ad_ids = [k \in 1..Len(emitted) |-> ads[emitted[k]]]
        /\ PassTerm \in ToSet(state.processed_terms)

\* C5, for a pass whose record loop reached the end of ads.
C5_LoopExhausted ==
    (pc \in {"marksave", "post"} /\ fromEmpty /\ j > Len(ads)) =>
        /\ ToSet(emitted) = accepts
        /\ Ascending(emitted)
        /\ NewMerged = EmittedRows
        /\ NewOut = EmittedRows
        /\ state.processed_ad_ids = [k \in 1..Len(emitted) |-> ads[emitted[k]]]
        /\ PassTerm \in ToSet(state.processed_terms)

\* Three records fetched, the second rejected, two rows gained.
C5_LoopExhausted_Witness ==
    /\ pc = "post" /\ fromEmpty /\ j > Len(ads)
    /\ Len(ads) = 3 /\ accepts = {1, 3}
    /\ Len(NewMerged) = 2

\* C6: a term whose every page request failed is recorded as processed; its
\* pass returns normally (the run goes on with the next term), adds no row to
\* a store, and saves the state with the term in it.
C6_FetchFailure ==
    /\ \A t \in failed : t \in ToSet(state.processed_terms)
    /\ (Len(queried) > 0 /\ ti <= NTerms) =>
         ((PassTerm \in failed /\ Term = PassTerm) =>
            /\ pc \in {"marksave", "post"}
            /\ NewMerged = << >>
            /\ NewOut = << >>
            /\ (pc = "post" /\ faults = 0) => disk = Saved(state))

\* Every page request of the first term failed and the second term was
\* fetched.
C6_Witness == 1 \in failed /\ Len(queried) = 2 /\ queried[2] = 2

\* C7: once a page request was refused for authentication, no further term is
\* queried.
C7_AuthHalts == authAt > 0 => Len(queried) = authAt

\* C8: the process ends with a code other than 0 when the token is missing,
\* and with 0 when it is set and no exception left main.
C8_ExitCode ==
    pc = "exited" =>
        IF token THEN (~uncaught => exitCode = 0) ELSE exitCode # 0

\* C9: a save that fails or is cut short leaves the checkpoint on disk as it
\* was: a complete checkpoint is only ever replaced by a complete checkpoint.
C9_AtomicSave == [][disk.kind = "ok" => disk'.kind = "ok"]_vars

\* C10: the direct download of an external url answering with something that
\* is not an image, capture_ad_snapshot goes on to the HEAD probe, and to the
\* rendered screenshot unless the probe and a second download deliver an
\* image; the record is without artifact only when the screenshot fails too.
C10_FallThrough ==
    (capOut # NoCapture /\ capIn.url = "ext" /\ capIn.disk = "ok" /\ capIn.dl1 = "nonimage") =>
        /\ Len(capOut.steps) >= 2
        /\ capOut.steps[1] = "download"
        /\ capOut.steps[2] = "head"
        /\ (capIn.hd = "image" /\ capIn.dl2 = "image") => capOut.src = "direct"
        /\ ~(capIn.hd = "image" /\ capIn.dl2 = "image") =>
             /\ capOut.steps[Len(capOut.steps)] = "screenshot"
             /\ capOut.src = (IF capIn.ss = "ok" THEN "rendered" ELSE "none")

\* A non-image answer to the direct download, and the screenshot kept.
C10_Witness ==
    /\ capIn.url = "ext" /\ capIn.disk = "ok" /\ capIn.dl1 = "nonimage"
    /\ capOut.src = "rendered"

\* C11: the checkpoint on disk being absent or corrupt, load_state leaves the
\* empty state: after the load the state has both keys, it is the empty state
\* when the loop is about to begin, and no term fails on a missing key (every
\* term can be recorded as processed).
C11_LoadEmpty ==
    /\ pc # "start" => HasKey(state, "processed_terms") /\ HasKey(state, "processed_ad_ids")
    /\ (pc = "init" /\ ~shutting_down /\ restarts = 0) => state = EmptyState
    /\ exc # "state"

\* C12: the sweep removes no entry whose age is below retention_days, and when
\* it has ended every entry was examined: each file older than retention_days
\* whose own stat and unlink did not fail is removed, whatever failed for the
\* entries before it.
C12_Retention ==
    /\ \A i \in 1..Len(shots) : Age(shots[i]) < IMAGE_RETENTION_DAYS => i \in present
    /\ \A i \in 1..(pos - 1) :
         (shots[i].isFile /\ shots[i].err = "none" /\ Age(shots[i]) > IMAGE_RETENTION_DAYS)
            => i \notin present

\* The sweep has ended: the removal of the first entry, an old file, failed,
\* the second, an old file, was removed.
C12_Witness ==
    /\ Len(shots) >= 2 /\ pos > Len(shots)
    /\ shots[1].isFile /\ shots[1].err = "unlink" /\ Age(shots[1]) > IMAGE_RETENTION_DAYS
    /\ shots[2].isFile /\ Age(shots[2]) > IMAGE_RETENTION_DAYS
    /\ present = {1}

\* C13: the term of a pass is among the processed terms only when every
\* record the fetch returned was handled (skipped as seen, rejected by the
\* filter, or given a row): the record loop reached the end of ads.
C13_CompleteOnly ==
    (pc \in {"marksave", "post"} /\ PassTerm \in ToSet(state.processed_terms)) =>
        j > Len(ads)

\* C14: an exception raised while a term is processed does not leave main, and
\* the loop goes on: a process that ended without a shutdown signal and within
\* the time budget has attempted every term that was not already processed;
\* the save_state of the finally block writes the state of the run.
C14_ExceptionCaught ==
    /\ exc # "none" => ~uncaught
    /\ (pc = "exited" /\ token /\ ~uncaught /\ ~shutting_down /\ ~timeUp) =>
         \A t \in Terms : t \in ToSet(state.processed_terms) \/ t \in ToSet(queried)
    /\ (pc = "exited" /\ token /\ lastSave = "ok") => disk = Saved(state)

\* The pass of the first term ended with an exception (the term was fetched
\* and is not among the processed terms), the second term was fetched after
\* it, and the process ended with the state saved.
C14_Witness ==
    /\ pc = "exited" /\ ~shutting_down
    /\ queried = <<1, 2>>
    /\ 1 \notin ToSet(state.processed_terms)
    /\ 2 \in ToSet(state.processed_terms)
    /\ disk = Saved(state)

\* C15: once the test of the time budget has found it exceeded, no term is
\* started (main is in or past the finally block and fetches nothing more),
\* nothing is left in rows, the steps that follow add no row and mark no term
\* (the at-most-once and processed-term invariants are left as they were),
\* and the process ends with the webdriver quit and the state saved.
C15_Budget ==
    /\ [](timeUp => /\ pc \in {"finally", "exited"}
                     /\ rows = << >>
                     /\ pc = "exited" => /\ driver # "live"
                                         /\ lastSave = "ok" => disk = Saved(state))
    /\ [][(timeUp /\ timeUp') =>
            /\ queried' = queried
            /\ merged' = merged
            /\ out' = out
            /\ state' = state]_vars

\* A process that wrote rows for the first term ended on the time budget
\* before the second term.
C15_Witness ==
    /\ pc = "exited" /\ timeUp /\ ~shutting_down
    /\ queried = <<1>>
    /\ merged # << >>
    /\ driver = "quit"
    /\ disk = Saved(state)

\* C16: a term is processed only while fewer than MAX_ADS_PER_DRIVER_RESTART
\* terms have completed since the webdriver was last initialized (after that
\* many the driver is quit and a new one initialized before the next term),
\* and the process never ends with a live webdriver.
C16_RendererRestart ==
    /\ pc \in {"fetch", "rec", "cap", "flush1", "flush2", "flushsave", "marksave"} =>
         processed_ads_since_restart < MAX_ADS_PER_DRIVER_RESTART
    /\ pc = "exited" => driver # "live"

\* The rows of term t in MERGED_CSV.
MergedRows(t) == SelectSeq(merged, LAMBDA row : row.term = t)

\* C17: through flushes, crashes at any step and resumes, the rows of a term
\* in MERGED_CSV and the rows in the term's own csv differ in number by at
\* most one batch (BATCH_WRITE_EVERY_N_ROWS rows).
C17_StoresAgree ==
    \A t \in Terms :
        /\ Len(out[t]) - Len(MergedRows(t)) <= BATCH_WRITE_EVERY_N_ROWS
        /\ Len(MergedRows(t)) - Len(out[t]) <= BATCH_WRITE_EVERY_N_ROWS

\* C18: after a shutdown signal the process eventually ends, and when it has
\* ended the webdriver is not live, the save_state of the finally block has
\* left the state on disk, and the rows of the records emitted in the pass the
\* signal interrupted are in both stores (no write to a store having failed).
C18_ShutdownStops ==
    /\ shutting_down ~> pc = "exited"
    /\ []((pc = "exited" /\ shutting_down) =>
            /\ driver # "live"
            /\ lastSave = "ok" => disk = Saved(state)
            /\ (sigPos >= 0 /\ exc # "append") =>
                 NewMerged = EmittedRows /\ NewOut = EmittedRows)

\* C18, the liveness part: after a shutdown signal the process ends.
C18_Stops == shutting_down ~> pc = "exited"

\* C19: every id among the processed_ad_ids of the checkpoint on disk has a
\* row in MERGED_CSV.
C19_SeenHasRow ==
    disk.kind = "ok" =>
        \A id \in ToSet(Get(disk.st, "processed_ad_ids")) :
            \E k \in 1..Len(merged) : merged[k].ad_id = id

\* C20: capture_ad_snapshot is only ever called with a live webdriver
\* (initialized and not quit).
C20_LiveRenderer == pc = "cap" => driver = "live"

====
